---- MODULE Spec2Model ----
(***************************************************************************)
(* Model of the syllabus PDF parser scripts.                               *)
(*   - pdfToText (layout reconstruction over positioned text runs),        *)
(*   - extractTAOfficeHours, extractGradingPolicy (two variants),          *)
(*   - extractSection / extractSectionWithBoundaries / processPdf,         *)
(*   - extractTextFromPDF, extractTextWithOCR, main and processSyllabus.   *)
(* JavaScript strings are modelled as sequences of one-character strings.  *)
(***************************************************************************)
EXTENDS Integers, Sequences, FiniteSets, TLC

VARIABLES
    pc,         \* position of the running function
    doc,        \* pdfToText: the decoded document, a sequence of pages (run lists)
    i,          \* pdfToText: page index of the for loop (1-based)
    blocks,     \* pdfToText: textContent.items of the current page
    k,          \* pdfToText: index into blocks (0-based, as in the code)
    pageText,   \* pdfToText: text of the current page
    lastBlock,  \* pdfToText: previous run of the current page, or None
    fullText,   \* pdfToText: text of the document so far
    text,       \* extractors: the input text
    result,     \* extractors: the returned value
    section,    \* processPdf: number of entries of sections already processed
    extractedData,  \* processPdf: the result map built so far
    inflight,   \* the awaited page operations started and not yet settled
    started,    \* the page operations started so far, in the order of their start
    thrown,     \* the error the text-extraction function rejected with, or "none"
    written,    \* main / processSyllabus: the output file has been written
    numPages,   \* extractTextWithOCR: parsed.numpages
    ocrText,    \* extractTextWithOCR: the recognized text so far
    images,     \* extractTextWithOCR: the pages whose image file exists in ./tmp
    again,      \* pdfToText has been called a second time on the same data
    previous    \* the value the first call of pdfToText returned

vars ==
    <<pc, doc, i, blocks, k, pageText, lastBlock, fullText, text, result,
      section, extractedData, inflight, started, thrown, written, numPages,
      ocrText, images, again, previous>>

layoutVars == <<doc, i, blocks, k, pageText, lastBlock, fullText>>

sectionVars == <<section, extractedData>>

awaitVars == <<inflight, started, thrown>>

ocrVars == <<numPages, ocrText, images>>

callVars == <<again, previous>>

ioVars == <<awaitVars, written, ocrVars, callVars>>

-----------------------------------------------------------------------------
(* Bounds *)

MaxPages == 2
MaxRuns == 2
MaxOfficeFrags == 3
MaxGradingLines == 3
MaxSectionLines == 4

-----------------------------------------------------------------------------
(* JavaScript string primitives *)

None == [none |-> TRUE]

Min(a, b) == IF a < b THEN a ELSE b

Max(a, b) == IF a > b THEN a ELSE b

\* s.substring(from) with a 0-based index
SubstringFrom(s, from) == SubSeq(s, Min(Max(from, 0), Len(s)) + 1, Len(s))

\* s.substring(from, to) with 0-based indices, from <= to
Substring(s, from, to) ==
    SubSeq(s, Min(Max(from, 0), Len(s)) + 1, Min(Max(to, 0), Len(s)))

\* does pat occur in s at 0-based index p
OccursAt(s, pat, p) ==
    /\ p >= 0
    /\ p + Len(pat) <= Len(s)
    /\ \A j \in 1..Len(pat) : s[p + j] = pat[j]

\* s.indexOf(pat, from): 0-based index of the first occurrence at or after from, or -1
IndexOfFrom(s, pat, from) ==
    LET hits == {p \in Max(from, 0)..Len(s) : OccursAt(s, pat, p)}
    IN  IF hits = {} THEN -1 ELSE CHOOSE p \in hits : \A q \in hits : p <= q

IndexOf(s, pat) == IndexOfFrom(s, pat, 0)

\* the characters \s matches and trim() removes
WhiteSpace == {" ", "\n", "\r", "\t"}

\* the characters . does not match
LineTerminators == {"\n", "\r"}

RECURSIVE TrimStart(_)
TrimStart(s) ==
    IF s # <<>> /\ Head(s) \in WhiteSpace THEN TrimStart(Tail(s)) ELSE s

RECURSIVE TrimEnd(_)
TrimEnd(s) ==
    IF s # <<>> /\ s[Len(s)] \in WhiteSpace THEN TrimEnd(SubSeq(s, 1, Len(s) - 1)) ELSE s

\* s.trim()
Trim(s) == TrimEnd(TrimStart(s))

Letters ==
    {"a","b","c","d","e","f","g","h","i","j","k","l","m","n","o","p","q","r","s","t",
     "u","v","w","x","y","z",
     "A","B","C","D","E","F","G","H","I","J","K","L","M","N","O","P","Q","R","S","T",
     "U","V","W","X","Y","Z"}

Digits == {"0","1","2","3","4","5","6","7","8","9"}

RECURSIVE Flatten(_)
\* concatenation of a sequence of strings
Flatten(ss) == IF ss = <<>> THEN <<>> ELSE Head(ss) \o Flatten(Tail(ss))

RECURSIVE Join(_, _)
\* lines.join(sep)
Join(ss, sep) ==
    IF ss = <<>> THEN <<>>
    ELSE IF Len(ss) = 1 THEN ss[1]
    ELSE ss[1] \o sep \o Join(Tail(ss), sep)

\* sequences over S of length 0..n
SeqUpTo(S, n) == UNION {[1..m -> S] : m \in 0..n}

-----------------------------------------------------------------------------
(* pdfToText *)

CRLF == <<"\r", "\n">>

Space == <<" ">>

PageSeparator == <<"\n", "\n">>

\* the texts of the runs a page may hold
RunStrs == {<<"A">>, <<"H", "i">>, <<"a", " ">>, <<" ", "b">>}

\* transform[4] (x) and transform[5] (y) of the runs
Coords == {<<1, 1>>, <<2, 1>>, <<1, 2>>}

Runs == {[str |-> s, x |-> c[1], y |-> c[2]] : s \in RunStrs, c \in Coords}

RECURSIVE DocsOf(_, _)
\* the documents of up to p pages holding up to r runs in all
DocsOf(p, r) ==
    IF p = 0 THEN {<<>>}
    ELSE {<<>>} \cup
         UNION {{<<pg>> \o d : d \in DocsOf(p - 1, r - Len(pg))} : pg \in SeqUpTo(Runs, r)}

Docs == DocsOf(MaxPages, MaxRuns)

\* lastBlock.str[lastBlock.str.length - 1] !== ' '
NotEndsWithSpace(s) == s = <<>> \/ s[Len(s)] # " "

\* /^\s?[a-zA-Z]$/.test(s)
IsBareLetter(s) ==
    \/ Len(s) = 1 /\ s[1] \in Letters
    \/ Len(s) = 2 /\ s[1] \in WhiteSpace /\ s[2] \in Letters

\* Separator with the word-break test made before the new-line test
SeparatorSpaceFirst(last, block) ==
    IF last # None /\ NotEndsWithSpace(last.str)
    THEN IF last.y # block.y /\ ~IsBareLetter(last.str) THEN Space
         ELSE IF block.x < last.x THEN CRLF
         ELSE <<>>
    ELSE <<>>

\* Separator with <= in place of < in the new-line test
SeparatorLessEq(last, block) ==
    IF last # None /\ NotEndsWithSpace(last.str)
    THEN IF block.x <= last.x THEN CRLF
         ELSE IF last.y # block.y /\ ~IsBareLetter(last.str) THEN Space
         ELSE <<>>
    ELSE <<>>

\* Separator without the bare-letter exception
SeparatorNoLetterException(last, block) ==
    IF last # None /\ NotEndsWithSpace(last.str)
    THEN IF block.x < last.x THEN CRLF
         ELSE IF last.y # block.y THEN Space
         ELSE <<>>
    ELSE <<>>

\* what is appended to pageText before block.str
Separator(last, block) ==
    IF last # None /\ NotEndsWithSpace(last.str)
    THEN IF block.x < last.x THEN CRLF
         ELSE IF last.y # block.y /\ ~IsBareLetter(last.str) THEN Space
         ELSE <<>>
    ELSE <<>>

RECURSIVE PageTextFrom(_, _, _)
\* the loop over blocks as a fold: the page text after the runs rs, from (acc, last)
PageTextFrom(acc, last, rs) ==
    IF rs = <<>> THEN acc
    ELSE PageTextFrom(acc \o Separator(last, Head(rs)) \o Head(rs).str, Head(rs), Tail(rs))

\* the pageText of a page whose textContent.items are rs
PageTextOf(rs) == PageTextFrom(<<>>, None, rs)

\* AppendPage that adds the separator only after a page that has text
AppendPageSkipEmpty(full, page) ==
    IF page = <<>> THEN full ELSE full \o page \o PageSeparator

\* fullText += pageText + "\n\n"
AppendPage(full, page) == full \o page \o PageSeparator

\* processPdf is not running
IdleSection ==
    /\ section = 0
    /\ extractedData = <<>>

\* nothing is awaited, nothing was thrown or written, extractTextWithOCR is not running
IdleIo ==
    /\ inflight = {}
    /\ started = <<>>
    /\ thrown = "none"
    /\ written = FALSE
    /\ numPages = 0
    /\ ocrText = <<>>
    /\ images = {}
    /\ again = FALSE
    /\ previous = <<>>

InitExtract ==
    /\ text = <<>>
    /\ result = None
    /\ IdleSection
    /\ IdleIo

InitLayout ==
    /\ pc = "start"
    /\ doc \in Docs
    /\ i = 0
    /\ blocks = <<>>
    /\ k = 0
    /\ pageText = <<>>
    /\ lastBlock = None
    /\ fullText = <<>>
    /\ InitExtract

\* const pdf = await getDocument(data).promise; let fullText = ""; i = 1
LoadDocument ==
    /\ pc = "start"
    /\ fullText' = <<>>
    /\ i' = 1
    /\ pc' = "loop"
    /\ UNCHANGED <<doc, blocks, k, pageText, lastBlock, text, result, sectionVars, ioVars>>

\* the awaited operation op of page p
PageOp(op, p) == [op |-> op, page |-> p]

\* StartGetPage without the await: the loop goes on to the next page at once
StartGetPageNoAwait ==
    /\ pc = "loop"
    /\ i <= Len(doc)
    /\ inflight' = inflight \cup {PageOp("getPage", i)}
    /\ started' = Append(started, PageOp("getPage", i))
    /\ i' = i + 1
    /\ UNCHANGED <<pc, doc, blocks, k, pageText, lastBlock, fullText, text, result,
                   sectionVars, thrown, written, ocrVars, callVars>>

\* i <= pdf.numPages; pdf.getPage(i) is called and awaited
StartGetPage ==
    /\ pc = "loop"
    /\ i <= Len(doc)
    /\ inflight' = inflight \cup {PageOp("getPage", i)}
    /\ started' = Append(started, PageOp("getPage", i))
    /\ pc' = "getPage"
    /\ UNCHANGED <<layoutVars, text, result, sectionVars, thrown, written, ocrVars,
                   callVars>>

\* the promise of pdf.getPage(i) is fulfilled: const page = await pdf.getPage(i)
GetPage ==
    /\ pc = "getPage"
    /\ inflight' = inflight \ {PageOp("getPage", i)}
    /\ pc' = "page"
    /\ UNCHANGED <<layoutVars, text, result, sectionVars, started, thrown, written,
                   ocrVars, callVars>>

\* page.getTextContent() is called and awaited
StartGetTextContent ==
    /\ pc = "page"
    /\ inflight' = inflight \cup {PageOp("getTextContent", i)}
    /\ started' = Append(started, PageOp("getTextContent", i))
    /\ pc' = "getTextContent"
    /\ UNCHANGED <<layoutVars, text, result, sectionVars, thrown, written, ocrVars,
                   callVars>>

\* GetTextContent with lastBlock declared outside the loop over the pages
GetTextContentKeepLastBlock ==
    /\ pc = "getTextContent"
    /\ inflight' = inflight \ {PageOp("getTextContent", i)}
    /\ blocks' = doc[i]
    /\ pageText' = <<>>
    /\ k' = 0
    /\ pc' = "runs"
    /\ UNCHANGED <<doc, i, lastBlock, fullText, text, result, sectionVars, started,
                   thrown, written, ocrVars, callVars>>

\* the promise of page.getTextContent() is fulfilled:
\* const textContent = await page.getTextContent(); pageText = ""; lastBlock = null
GetTextContent ==
    /\ pc = "getTextContent"
    /\ inflight' = inflight \ {PageOp("getTextContent", i)}
    /\ blocks' = doc[i]
    /\ pageText' = <<>>
    /\ lastBlock' = None
    /\ k' = 0
    /\ pc' = "runs"
    /\ UNCHANGED <<doc, i, fullText, text, result, sectionVars, started, thrown,
                   written, ocrVars, callVars>>

\* one iteration of the loop over blocks
RunStep ==
    /\ pc = "runs"
    /\ k < Len(blocks)
    /\ LET block == blocks[k + 1]
       IN  /\ pageText' = pageText \o Separator(lastBlock, block) \o block.str
           /\ lastBlock' = block
    /\ k' = k + 1
    /\ UNCHANGED <<pc, doc, i, blocks, fullText, text, result, sectionVars, ioVars>>

\* the loop over blocks ends: fullText += pageText + "\n\n"; i++
EndPage ==
    /\ pc = "runs"
    /\ k >= Len(blocks)
    /\ fullText' = AppendPage(fullText, pageText)
    /\ i' = i + 1
    /\ pc' = "loop"
    /\ UNCHANGED <<doc, blocks, k, pageText, lastBlock, text, result, sectionVars, ioVars>>

\* i > pdf.numPages: return fullText
ReturnText ==
    /\ pc = "loop"
    /\ i > Len(doc)
    /\ result' = fullText
    /\ pc' = "done"
    /\ UNCHANGED <<layoutVars, text, sectionVars, ioVars>>

NextLayout ==
    \/ LoadDocument
    \/ StartGetPage
    \/ GetPage
    \/ StartGetTextContent
    \/ GetTextContent
    \/ RunStep
    \/ EndPage
    \/ ReturnText

SpecLayout == InitLayout /\ [][NextLayout]_vars

\* pdfToText is called a second time on the same data; every local is declared
\* anew by the statements of the function
CallAgain ==
    /\ pc = "done"
    /\ ~again
    /\ again' = TRUE
    /\ previous' = result
    /\ pc' = "start"
    /\ UNCHANGED <<layoutVars, text, result, sectionVars, awaitVars, written, ocrVars>>

NextRerun == NextLayout \/ CallAgain

SpecRerun == InitLayout /\ [][NextRerun]_vars

-----------------------------------------------------------------------------
(* extractTAOfficeHours *)

OfficeMarker == <<"O","f","f","i","c","e"," ","H","o","u","r","s",":">>

AltMarker == <<"T","A"," ","I","n","f","o",":">>

OfficeNotFound ==
    <<"T","A"," ","o","f","f","i","c","e"," ","h","o","u","r","s"," ",
      "n","o","t"," ","f","o","u","n","d",".">>

LF == <<"\n">>

\* sub = text.substring(idx + markerLen); the trimmed text of sub up to its first "\n"
RestOfLine(t, idx, markerLen) ==
    LET sub == SubstringFrom(t, idx + markerLen)
        lineEnd == IndexOf(sub, LF)
    IN  Trim(Substring(sub, 0, IF lineEnd # -1 THEN lineEnd ELSE Len(sub)))

\* extractTAOfficeHours looking for "TA Info:" before "Office Hours:"
extractTAOfficeHoursAltFirst(t) ==
    LET idx == IndexOf(t, AltMarker)
    IN  IF idx = -1
        THEN LET idx2 == IndexOf(t, OfficeMarker)
             IN  IF idx2 = -1 THEN OfficeNotFound
                 ELSE RestOfLine(t, idx2, Len(OfficeMarker))
        ELSE RestOfLine(t, idx, Len(AltMarker))

extractTAOfficeHours(t) ==
    LET idx == IndexOf(t, OfficeMarker)
    IN  IF idx = -1
        THEN LET idx2 == IndexOf(t, AltMarker)
             IN  IF idx2 = -1 THEN OfficeNotFound
                 ELSE RestOfLine(t, idx2, Len(AltMarker))
        ELSE RestOfLine(t, idx, Len(OfficeMarker))

\* the pieces the input texts of extractTAOfficeHours are built from
OfficeFrags ==
    { OfficeMarker, AltMarker, LF,
      <<" ","T","u","e"," ","2","-","4","p","m">>,
      <<" ","M","o","n"," ">> }

OfficeTexts == {Flatten(fs) : fs \in SeqUpTo(OfficeFrags, MaxOfficeFrags)}

\* pdfToText is not running
IdleLayout ==
    /\ doc = <<>>
    /\ i = 0
    /\ blocks = <<>>
    /\ k = 0
    /\ pageText = <<>>
    /\ lastBlock = None
    /\ fullText = <<>>
    /\ IdleIo

InitOffice ==
    /\ pc = "start"
    /\ text \in OfficeTexts
    /\ result = None
    /\ IdleLayout
    /\ IdleSection

\* const taOfficeHours = extractTAOfficeHours(fullText)
CallExtractTAOfficeHours ==
    /\ pc = "start"
    /\ result' = extractTAOfficeHours(text)
    /\ pc' = "done"
    /\ UNCHANGED <<layoutVars, text, sectionVars, ioVars>>

NextOffice == CallExtractTAOfficeHours

SpecOffice == InitOffice /\ [][NextOffice]_vars

-----------------------------------------------------------------------------
(* extractGradingPolicy: the first variant and the second (marker scan) variant *)

UpperCase ==
    <<"A","B","C","D","E","F","G","H","I","J","K","L","M","N","O","P","Q","R","S","T",
      "U","V","W","X","Y","Z">>

LowerCase ==
    <<"a","b","c","d","e","f","g","h","i","j","k","l","m","n","o","p","q","r","s","t",
      "u","v","w","x","y","z">>

\* the characters of the texts
Chars ==
    Letters \cup Digits \cup WhiteSpace \cup {":", ".", "%", "+", "-"}

\* the lower-case form of every character
LowerOf ==
    [c \in Chars |->
        IF \E j \in 1..26 : UpperCase[j] = c
        THEN LowerCase[CHOOSE j \in 1..26 : UpperCase[j] = c]
        ELSE c]

\* the canonical form of a character under the regular expression flag i
ToLower(c) == LowerOf[c]

\* pat matches in s at 0-based index p, ignoring case
OccursAtNoCase(s, pat, p) ==
    /\ p >= 0
    /\ p + Len(pat) <= Len(s)
    /\ \A j \in 1..Len(pat) : ToLower(s[p + j]) = ToLower(pat[j])

\* s.search(/pat/i) for a literal pat: index of the leftmost match, or -1
SearchNoCase(s, pat) ==
    LET hits == {p \in 0..Len(s) : OccursAtNoCase(s, pat, p)}
    IN  IF hits = {} THEN -1 ELSE CHOOSE p \in hits : \A q \in hits : p <= q

\* /\r?\n\r?\n/ matches in s at 0-based index p
BlankLineAt(s, p) ==
    LET AfterFirst(q) ==      \* \r?\n at 0-based q
            \/ q + 1 <= Len(s) /\ s[q + 1] = "\n"
            \/ q + 2 <= Len(s) /\ s[q + 1] = "\r" /\ s[q + 2] = "\n"
    IN  \/ p + 1 <= Len(s) /\ s[p + 1] = "\n" /\ AfterFirst(p + 1)
        \/ p + 2 <= Len(s) /\ s[p + 1] = "\r" /\ s[p + 2] = "\n" /\ AfterFirst(p + 2)

\* s.search(/\r?\n\r?\n/)
SearchBlankLine(s) ==
    LET hits == {p \in 0..Len(s) : BlankLineAt(s, p)}
    IN  IF hits = {} THEN -1 ELSE CHOOSE p \in hits : \A q \in hits : p <= q

\* sub.substring(0, endIdx).trim() with endIdx the blank line or sub.length
UpToBlankLine(sub) ==
    LET found == SearchBlankLine(sub)
        endIdx == IF found = -1 THEN Len(sub) ELSE found
    IN  Trim(Substring(sub, 0, endIdx))

RECURSIVE Split(_, _)
\* s.split(c) for a one-character separator c
Split(s, c) ==
    LET hits == {p \in 1..Len(s) : s[p] = c}
    IN  IF hits = {} THEN <<s>>
        ELSE LET p == CHOOSE q \in hits : \A r \in hits : q <= r
             IN  <<SubSeq(s, 1, p - 1)>> \o Split(SubSeq(s, p + 1, Len(s)), c)

RECURSIVE MapTrim(_)
\* lines.map(line => line.trim())
MapTrim(ls) == IF ls = <<>> THEN <<>> ELSE <<Trim(Head(ls))>> \o MapTrim(Tail(ls))

GradeWeighting == <<"G","r","a","d","e"," ","W","e","i","g","h","t","i","n","g">>

GradingScale == <<"G","r","a","d","i","n","g"," ","S","c","a","l","e">>

GradeLetter == <<"g","r","a","d","e"," ","l","e","t","t","e","r">>

GradedWork == <<"G","r","a","d","e","d"," ","W","o","r","k">>

GradingPolicies == <<"G","r","a","d","i","n","g"," ","P","o","l","i","c","i","e","s",":">>

GradingPolicy == <<"G","r","a","d","i","n","g"," ","P","o","l","i","c","y",":">>

GradingColon == <<"G","r","a","d","i","n","g",":">>

\* const markers = ["Graded Work", "Grading Policies:", "Grading Policy:", "Grading:"]
FallbackMarkers == <<GradedWork, GradingPolicies, GradingPolicy, GradingColon>>

GradingNotFound ==
    <<"G","r","a","d","i","n","g"," ","p","o","l","i","c","y"," ",
      "n","o","t"," ","f","o","u","n","d",".">>

ScaleHeader == <<"\n","\n","G","r","a","d","i","n","g"," ","S","c","a","l","e",":","\n">>

\* text.substring(idx, idx + 1000)
WeightingChunkLen == 1000

\* text.substring(letterIdx, letterIdx + 500), text.substring(idxScale, idxScale + 500)
ScaleChunkLen == 500

RECURSIVE FallbackFrom(_, _)
\* FallbackFrom without the test idx !== -1
FallbackFromNoIdxTest(t, m) ==
    IF m > Len(FallbackMarkers) THEN GradingNotFound
    ELSE LET marker == FallbackMarkers[m]
             idx == IndexOf(t, marker)
             res == UpToBlankLine(SubstringFrom(t, idx + Len(marker)))
         IN  IF Len(res) > 0 THEN res ELSE FallbackFrom(t, m + 1)

\* the loop over the fallback markers, from marker number m on
FallbackFrom(t, m) ==
    IF m > Len(FallbackMarkers) THEN GradingNotFound
    ELSE LET marker == FallbackMarkers[m]
             idx == IndexOf(t, marker)
             res == UpToBlankLine(SubstringFrom(t, idx + Len(marker)))
         IN  IF idx # -1 /\ Len(res) > 0 THEN res ELSE FallbackFrom(t, m + 1)

\* the first variant of extractGradingPolicy
extractGradingPolicyFirst(t) ==
    LET idx == IndexOf(t, GradeWeighting)
    IN  IF idx # -1
        THEN LET idxScale == IndexOfFrom(t, GradingScale, idx)
             IN  IF idxScale # -1
                 THEN Trim(Substring(t, idx, idxScale)) \o <<"\n", "\n">>
                         \o UpToBlankLine(SubstringFrom(t, idxScale))
                 ELSE Trim(SubstringFrom(t, idx))
        ELSE FallbackFrom(t, 1)

\* the lines of the chunk from "Grade Weighting" that contain "%"
WeightingLines(t, idx) ==
    SelectSeq(MapTrim(Split(Substring(t, idx, idx + WeightingChunkLen), "\n")),
              LAMBDA line : IndexOf(line, <<"%">>) # -1)

\* the number of leading characters of s that are in set C
RECURSIVE RunLength(_, _)
RunLength(s, C) ==
    IF s # <<>> /\ Head(s) \in C THEN 1 + RunLength(Tail(s), C) ELSE 0

\* the length of the match of /^[A-F][+-]?\s+\d+/m in s at 0-based index p, or -1
ScaleMatchLen(s, p) ==
    IF /\ p + 1 <= Len(s)
       /\ p = 0 \/ s[p] \in LineTerminators
       /\ s[p + 1] \in {"A", "B", "C", "D", "E", "F"}
    THEN LET sign == IF p + 2 <= Len(s) /\ s[p + 2] \in {"+", "-"} THEN 1 ELSE 0
             ws == RunLength(SubstringFrom(s, p + 1 + sign), WhiteSpace)
             ds == RunLength(SubstringFrom(s, p + 1 + sign + ws), Digits)
         IN  IF ws >= 1 /\ ds >= 1 THEN 1 + sign + ws + ds ELSE -1
    ELSE -1

RECURSIVE ScaleMatchesFrom(_, _)
\* while ((match = scaleRegex.exec(chunk)) !== null) lines.push(match[0].trim()),
\* with scaleRegex.lastIndex = lastIndex
ScaleMatchesFrom(s, lastIndex) ==
    LET hits == {p \in lastIndex..Len(s) : ScaleMatchLen(s, p) # -1}
    IN  IF hits = {} THEN <<>>
        ELSE LET p == CHOOSE q \in hits : \A r \in hits : q <= r
                 n == ScaleMatchLen(s, p)
             IN  <<Trim(Substring(s, p, p + n))>> \o ScaleMatchesFrom(s, p + n)

\* the scan of the 500-character chunk at the "grade letter" marker
MarkerScanLines(t) ==
    LET letterIdx == SearchNoCase(t, GradeLetter)
    IN  IF letterIdx # -1
        THEN ScaleMatchesFrom(Substring(t, letterIdx, letterIdx + ScaleChunkLen), 0)
        ELSE <<>>

\* the scan of the 500-character chunk at "Grading Scale" after "Grade Weighting"
GenericScanLines(t, idx) ==
    LET idxScale == IndexOfFrom(t, GradingScale, idx)
    IN  IF idxScale # -1
        THEN ScaleMatchesFrom(Substring(t, idxScale, idxScale + ScaleChunkLen), 0)
        ELSE <<>>

\* LetterScaleLines with the "Grading Scale" scan always added
LetterScaleLinesMixed(t, idx) == MarkerScanLines(t) \o GenericScanLines(t, idx)

\* letterScaleLines once both scans are over
LetterScaleLines(t, idx) ==
    IF Len(MarkerScanLines(t)) = 0 THEN GenericScanLines(t, idx) ELSE MarkerScanLines(t)

\* the "Grade Weighting" path of the second variant
WeightingPath(t, idx) ==
    LET weightingLines == WeightingLines(t, idx)
        letterScaleLines == LetterScaleLines(t, idx)
    IN  IF Len(weightingLines) = 0 /\ Len(letterScaleLines) = 0 THEN GradingNotFound
        ELSE (IF Len(weightingLines) > 0 THEN Join(weightingLines, LF) ELSE <<>>)
             \o (IF Len(letterScaleLines) > 0
                 THEN ScaleHeader \o Join(letterScaleLines, LF) ELSE <<>>)

\* the second variant of extractGradingPolicy
extractGradingPolicy(t) ==
    LET idx == IndexOf(t, GradeWeighting)
    IN  IF idx # -1 THEN WeightingPath(t, idx) ELSE FallbackFrom(t, 1)

\* the first lines of the input texts of extractGradingPolicy
GradingHeads ==
    { <<>>,
      <<GradeWeighting>>,
      <<GradeWeighting, GradeLetter>>,
      <<GradeWeighting, GradingScale>>,
      <<GradedWork>>,
      <<GradingPolicies>>,
      <<GradingPolicy>>,
      <<GradingColon>> }

\* the lines that follow them
GradingLines ==
    { <<"A"," ","9","4">>,
      <<"B","+"," ","8","7">>,
      <<"r","a","n","d","o","m"," ","p","r","o","s","e">>,
      <<"A">>,
      <<"9","4">>,
      <<"H","w"," ","5","0","%">>,
      <<>>,
      <<"G","r","a","d","e"," ","L","e","t","t","e","r">> }

GradingTexts ==
    {Join(h \o ls, LF) : h \in GradingHeads, ls \in SeqUpTo(GradingLines, MaxGradingLines)}

InitGrading ==
    /\ pc = "start"
    /\ text \in GradingTexts
    /\ result = None
    /\ IdleLayout
    /\ IdleSection

\* extractGradingPolicy(fullText), first variant
CallExtractGradingPolicyFirst ==
    /\ pc = "start"
    /\ result' = extractGradingPolicyFirst(text)
    /\ pc' = "doneFirst"
    /\ UNCHANGED <<layoutVars, text, sectionVars, ioVars>>

\* extractGradingPolicy(fullText), second variant
CallExtractGradingPolicy ==
    /\ pc = "start"
    /\ result' = extractGradingPolicy(text)
    /\ pc' = "doneSecond"
    /\ UNCHANGED <<layoutVars, text, sectionVars, ioVars>>

NextGrading ==
    \/ CallExtractGradingPolicyFirst
    \/ CallExtractGradingPolicy

SpecGrading == InitGrading /\ [][NextGrading]_vars

-----------------------------------------------------------------------------
(* extractSection, extractSectionWithBoundaries, filterLatePolicy, processPdf *)

\* JavaScript null
Null == [isNull |-> TRUE, str |-> <<>>]

\* a JavaScript string value
Str(s) == [isNull |-> FALSE, str |-> s]

\* if (v): neither null nor ""
Truthy(v) == ~v.isNull /\ v.str # <<>>

RECURSIVE RunLengthNot(_, _)
\* the number of leading characters of s that are not in set C
RunLengthNot(s, C) ==
    IF s # <<>> /\ Head(s) \notin C THEN 1 + RunLengthNot(Tail(s), C) ELSE 0

\* (?=\n[A-Z][a-z]|$) under flag i, at 0-based index e of t
HeadingAhead(t, e) ==
    \/ e = Len(t)
    \/ /\ e + 3 <= Len(t)
       /\ t[e + 1] = "\n"
       /\ t[e + 2] \in Letters
       /\ t[e + 3] \in Letters

\* (?=\nB1|\nB2|...|$) under flag i, at 0-based index e of t
BoundaryAhead(t, e, endBoundaries) ==
    \/ e = Len(t)
    \/ /\ e + 1 <= Len(t)
       /\ t[e + 1] = "\n"
       /\ \E b \in 1..Len(endBoundaries) : OccursAtNoCase(t, endBoundaries[b], e + 1)

\* the ways heading\s*[:\n]+\s*(.*?)(?=...) matches t with the heading at 0-based
\* index p: <<a, b, c, e>>, the lengths taken by \s*, [:\n]+ and \s* and the
\* index at which the capture ends
MatchesAt(t, heading, p, endBoundaries, generic) ==
    IF ~OccursAtNoCase(t, heading, p) THEN {}
    ELSE LET q == p + Len(heading)
         IN  {m \in UNION {UNION {UNION {
                    {<<a, b, c, e>> :
                        e \in (q + a + b + c)..
                              (q + a + b + c
                                 + RunLengthNot(SubstringFrom(t, q + a + b + c),
                                                LineTerminators))} :
                    c \in 0..RunLength(SubstringFrom(t, q + a + b), WhiteSpace)} :
                    b \in 1..RunLength(SubstringFrom(t, q + a), {":", "\n"})} :
                    a \in 0..RunLength(SubstringFrom(t, q), WhiteSpace)} :
                IF generic THEN HeadingAhead(t, m[4])
                ELSE BoundaryAhead(t, m[4], endBoundaries)}

\* the order in which backtracking tries the matches: \s*, [:\n]+ and \s* are
\* greedy (longer first), .*? is lazy (shorter first)
TriedBefore(m, n) ==
    \/ m[1] > n[1]
    \/ m[1] = n[1] /\ m[2] > n[2]
    \/ m[1] = n[1] /\ m[2] = n[2] /\ m[3] > n[3]
    \/ m[1] = n[1] /\ m[2] = n[2] /\ m[3] = n[3] /\ m[4] < n[4]

\* text.match(pattern): match ? match[1].trim() : null
HeadingCapture(t, heading, endBoundaries, generic) ==
    LET starts == {p \in 0..Len(t) : MatchesAt(t, heading, p, endBoundaries, generic) # {}}
    IN  IF starts = {} THEN Null
        ELSE LET p == CHOOSE x \in starts : \A y \in starts : x <= y
                 ms == MatchesAt(t, heading, p, endBoundaries, generic)
                 m == CHOOSE x \in ms : \A y \in ms : x = y \/ TriedBefore(x, y)
                 s == p + Len(heading) + m[1] + m[2] + m[3]
             IN  Str(Trim(Substring(t, s, m[4])))

extractSection(t, sectionHeading) == HeadingCapture(t, sectionHeading, <<>>, TRUE)

extractSectionWithBoundaries(t, startHeading, endBoundaries) ==
    HeadingCapture(t, startHeading, endBoundaries, FALSE)

RECURSIVE extractSectionMultiple(_, _)
extractSectionMultiple(t, possibleHeadings) ==
    IF possibleHeadings = <<>> THEN Null
    ELSE LET sectionText == extractSection(t, Head(possibleHeadings))
         IN  IF Truthy(sectionText) THEN sectionText
             ELSE extractSectionMultiple(t, Tail(possibleHeadings))

RECURSIVE ToLowerCase(_)
\* line.toLowerCase()
ToLowerCase(s) == IF s = <<>> THEN <<>> ELSE <<ToLower(Head(s))>> \o ToLowerCase(Tail(s))

LateWord == <<"l","a","t","e">>

PenaltyWord == <<"p","e","n","a","l","t","y">>

filterLatePolicy(t) ==
    Join(SelectSeq(Split(t, "\n"),
                   LAMBDA line : \/ IndexOf(ToLowerCase(line), LateWord) # -1
                                 \/ IndexOf(ToLowerCase(line), PenaltyWord) # -1),
         LF)

Homework == <<"H","o","m","e","w","o","r","k",":">>

Attendance == <<"A","t","t","e","n","d","a","n","c","e">>

CoursePolicies == <<"C","o","u","r","s","e"," ","P","o","l","i","c","i","e","s">>

GradeEvaluation == <<"G","r","a","d","e"," ","E","v","a","l","u","a","t","i","o","n">>

\* const sections = {...}, in the order Object.entries yields them
Sections ==
    << [name |-> "Late Policy",
        headings |-> <<Homework>>,
        hasBoundaries |-> FALSE, boundaries |-> <<>>],
       [name |-> "Grading Policy",
        headings |-> <<GradingScale \o <<":">>, GradingScale>>,
        hasBoundaries |-> TRUE, boundaries |-> <<Attendance, CoursePolicies>>],
       [name |-> "Grading Weights",
        headings |-> <<GradeEvaluation \o <<":">>, GradeEvaluation,
                       GradedWork \o <<":">>, GradedWork>>,
        hasBoundaries |-> TRUE, boundaries |-> <<GradingScale>>] >>

RECURSIVE BoundaryLoop(_, _, _, _)
\* for (const heading of headings) { sectionText = extractSectionWithBoundaries(...);
\*   if (sectionText) break; }  with sectionText = cur before the headings hs
BoundaryLoop(t, hs, boundaries, cur) ==
    IF hs = <<>> THEN cur
    ELSE LET sectionText == extractSectionWithBoundaries(t, Head(hs), boundaries)
         IN  IF Truthy(sectionText) THEN sectionText
             ELSE BoundaryLoop(t, Tail(hs), boundaries, sectionText)

\* the value processPdf stores for one entry of sections
SectionValue(t, params) ==
    LET found ==
            IF params.hasBoundaries
            THEN LET sectionText == BoundaryLoop(t, params.headings, params.boundaries, Null)
                 IN  IF ~Truthy(sectionText)
                     THEN extractSectionMultiple(t, params.headings)
                     ELSE sectionText
            ELSE extractSectionMultiple(t, params.headings)
    IN  IF params.name = "Late Policy" /\ Truthy(found)
        THEN Str(filterLatePolicy(found.str))
        ELSE found

\* the lines the input texts of processPdf are built from
SectionLines ==
    { Homework,
      <<"l","a","t","e"," ","-","5">>,
      GradingScale \o <<":">>,
      <<"A"," ","9","4">>,
      Attendance,
      <<>>,
      GradedWork }

SectionTexts == {Join(ls, LF) : ls \in SeqUpTo(SectionLines, MaxSectionLines)}

InitSection ==
    /\ pc = "sections"
    /\ text \in SectionTexts
    /\ result = None
    /\ section = 0
    /\ extractedData = <<>>
    /\ IdleLayout

\* one iteration of for (const [section, params] of Object.entries(sections))
ExtractSectionStep ==
    /\ pc = "sections"
    /\ section < Len(Sections)
    /\ LET params == Sections[section + 1]
       IN  extractedData' =
               Append(extractedData,
                      [name |-> params.name, value |-> SectionValue(text, params)])
    /\ section' = section + 1
    /\ UNCHANGED <<pc, layoutVars, text, result, ioVars>>

\* return extractedData
ReturnExtractedData ==
    /\ pc = "sections"
    /\ section = Len(Sections)
    /\ result' = extractedData
    /\ pc' = "done"
    /\ UNCHANGED <<layoutVars, text, sectionVars, ioVars>>

\* sectionText = extractSectionWithBoundaries(pdfText, heading, boundaries), for a
\* heading of an entry of sections that has boundaries
CallExtractSectionWithBoundaries ==
    /\ pc = "sections"
    /\ section = 0
    /\ \E n \in 1..Len(Sections) :
          /\ Sections[n].hasBoundaries
          /\ \E h \in 1..Len(Sections[n].headings) :
                result' = [heading |-> Sections[n].headings[h],
                           boundaries |-> Sections[n].boundaries,
                           value |-> extractSectionWithBoundaries(
                                        text, Sections[n].headings[h],
                                        Sections[n].boundaries)]
    /\ pc' = "called"
    /\ UNCHANGED <<layoutVars, text, sectionVars, ioVars>>

NextSection ==
    \/ ExtractSectionStep
    \/ ReturnExtractedData
    \/ CallExtractSectionWithBoundaries

SpecSection == InitSection /\ [][NextSection]_vars

-----------------------------------------------------------------------------
(* extractTextFromPDF, extractTextWithOCR, the head of processPdf, main *)

PdfSignature == <<"%","P","D","F">>

\* s.startsWith(prefix)
StartsWith(s, prefix) == OccursAt(s, prefix, 0)

\* NeedsOcr with the two tests made on the text as extracted, without trim()
NeedsOcrUntrimmed(pdfText) ==
    pdfText = <<>> \/ StartsWith(pdfText, PdfSignature)

\* !pdfText.trim() || pdfText.trim().startsWith("%PDF")
NeedsOcr(pdfText) ==
    Trim(pdfText) = <<>> \/ StartsWith(Trim(pdfText), PdfSignature)

LateLine == Homework \o LF \o <<"l","a","t","e"," ","-","5">>

\* the values of data.text that pdf-parse returns
DirectTexts ==
    { <<>>,
      <<"\n">>,
      <<" ", "\n">>,
      PdfSignature \o <<"-","1">>,
      <<" ">> \o PdfSignature,
      <<"\n">> \o PdfSignature \o <<"-","1">>,
      <<"A">> \o PdfSignature,
      LateLine,
      <<"\n">> \o LateLine }

\* the values of data.text that Tesseract.recognize returns for a page
OcrPageTexts == {<<>>, LateLine}

\* the locals of pdfToText other than i
pageVars == <<doc, blocks, k, pageText, lastBlock, fullText>>

InitPdf ==
    /\ pc = "main"
    /\ text = <<>>
    /\ result = None
    /\ IdleSection
    /\ IdleLayout

\* let pdfText = await extractTextFromPDF(pdfPath): readFile and pdfParse succeed
ExtractTextFromPDF ==
    /\ pc = "main"
    /\ \E t \in DirectTexts : text' = t
    /\ pc' = "decide"
    /\ UNCHANGED <<layoutVars, result, sectionVars, ioVars>>

\* readFile or pdfParse fails in extractTextFromPDF: its catch logs and throws err,
\* processPdf has no try
RejectExtractTextFromPDF ==
    /\ pc = "main"
    /\ thrown' = "extractTextFromPDF"
    /\ pc' = "thrown"
    /\ UNCHANGED <<layoutVars, text, result, sectionVars, inflight, started, written,
                   ocrVars, callVars>>

\* if (!pdfText.trim() || pdfText.trim().startsWith("%PDF"))
\*   pdfText = await extractTextWithOCR(pdfPath)
ChooseOcr ==
    /\ pc = "decide"
    /\ pc' = IF NeedsOcr(text) THEN "ocrParse" ELSE "sections"
    /\ UNCHANGED <<layoutVars, text, result, sectionVars, ioVars>>

\* fromPath, readFile, pdfParse: numPages = parsed.numpages; ocrText = ""; i = 1
OcrParse ==
    /\ pc = "ocrParse"
    /\ \E n \in 0..MaxPages : numPages' = n
    /\ ocrText' = <<>>
    /\ i' = 1
    /\ pc' = "ocrLoop"
    /\ UNCHANGED <<pageVars, text, result, sectionVars, awaitVars, written, images,
                   callVars>>

\* readFile or pdfParse fails in extractTextWithOCR
RejectOcrParse ==
    /\ pc = "ocrParse"
    /\ thrown' = "pdfParse"
    /\ pc' = "ocrCatch"
    /\ UNCHANGED <<layoutVars, text, result, sectionVars, inflight, started, written,
                   ocrVars, callVars>>

\* i <= numPages; converter(i) is called and awaited
StartConvert ==
    /\ pc = "ocrLoop"
    /\ i <= numPages
    /\ inflight' = inflight \cup {PageOp("convert", i)}
    /\ started' = Append(started, PageOp("convert", i))
    /\ pc' = "convert"
    /\ UNCHANGED <<layoutVars, text, result, sectionVars, thrown, written, ocrVars,
                   callVars>>

\* const conversionResult = await converter(i): the image of page i is in ./tmp
Convert ==
    /\ pc = "convert"
    /\ inflight' = inflight \ {PageOp("convert", i)}
    /\ images' = images \cup {i}
    /\ pc' = "converted"
    /\ UNCHANGED <<layoutVars, text, result, sectionVars, started, thrown, written,
                   numPages, ocrText, callVars>>

\* Tesseract.recognize(conversionResult.path, "eng", ...) is called and awaited
StartRecognize ==
    /\ pc = "converted"
    /\ inflight' = inflight \cup {PageOp("recognize", i)}
    /\ started' = Append(started, PageOp("recognize", i))
    /\ pc' = "recognize"
    /\ UNCHANGED <<layoutVars, text, result, sectionVars, thrown, written, ocrVars,
                   callVars>>

\* const { data: { text } } = await Tesseract.recognize(...); ocrText += text + "\n"
Recognize ==
    /\ pc = "recognize"
    /\ inflight' = inflight \ {PageOp("recognize", i)}
    /\ \E t \in OcrPageTexts : ocrText' = ocrText \o t \o LF
    /\ pc' = "recognized"
    /\ UNCHANGED <<layoutVars, text, result, sectionVars, started, thrown, written,
                   numPages, images, callVars>>

\* fs.unlink(conversionResult.path) is called and awaited
StartUnlink ==
    /\ pc = "recognized"
    /\ inflight' = inflight \cup {PageOp("unlink", i)}
    /\ started' = Append(started, PageOp("unlink", i))
    /\ pc' = "unlink"
    /\ UNCHANGED <<layoutVars, text, result, sectionVars, thrown, written, ocrVars,
                   callVars>>

\* await fs.unlink(conversionResult.path): the image of page i is gone; i++
Unlink ==
    /\ pc = "unlink"
    /\ inflight' = inflight \ {PageOp("unlink", i)}
    /\ images' = images \ {i}
    /\ i' = i + 1
    /\ pc' = "ocrLoop"
    /\ UNCHANGED <<pageVars, text, result, sectionVars, started, thrown, written,
                   numPages, ocrText, callVars>>

\* the awaited converter, Tesseract.recognize or fs.unlink fails: control passes to
\* the catch of extractTextWithOCR, no statement of the try block runs any more
RejectOcrPageOp ==
    /\ pc \in {"convert", "recognize", "unlink"}
    /\ thrown' = pc
    /\ inflight' = {}
    /\ pc' = "ocrCatch"
    /\ UNCHANGED <<layoutVars, text, result, sectionVars, started, written, ocrVars,
                   callVars>>

\* CatchOcr that returns the text recognized so far instead of throwing
CatchOcrReturnPartial ==
    /\ pc = "ocrCatch"
    /\ text' = ocrText
    /\ pc' = "sections"
    /\ UNCHANGED <<layoutVars, result, sectionVars, ioVars>>

\* catch (err) { console.error(...); throw err; } of extractTextWithOCR; processPdf
\* has no try
CatchOcr ==
    /\ pc = "ocrCatch"
    /\ pc' = "thrown"
    /\ UNCHANGED <<layoutVars, text, result, sectionVars, ioVars>>

\* i > numPages: return ocrText, which processPdf assigns to pdfText
ReturnOcrText ==
    /\ pc = "ocrLoop"
    /\ i > numPages
    /\ text' = ocrText
    /\ pc' = "sections"
    /\ UNCHANGED <<layoutVars, result, sectionVars, ioVars>>

\* the caller's catch: catch (err) { console.error(...) } of main and of processSyllabus
CatchError ==
    /\ pc = "thrown"
    /\ pc' = "caught"
    /\ UNCHANGED <<layoutVars, text, result, sectionVars, ioVars>>

\* the caller writes the output file: fs.writeFile in main, fs.writeFileSync in
\* processSyllabus
WriteOutput ==
    /\ pc = "done"
    /\ written' = TRUE
    /\ pc' = "exit"
    /\ UNCHANGED <<layoutVars, text, result, sectionVars, awaitVars, ocrVars, callVars>>

NextPdf ==
    \/ ExtractTextFromPDF
    \/ RejectExtractTextFromPDF
    \/ ChooseOcr
    \/ OcrParse
    \/ RejectOcrParse
    \/ StartConvert
    \/ Convert
    \/ StartRecognize
    \/ Recognize
    \/ StartUnlink
    \/ Unlink
    \/ RejectOcrPageOp
    \/ CatchOcr
    \/ ReturnOcrText
    \/ ExtractSectionStep
    \/ ReturnExtractedData
    \/ CatchError
    \/ WriteOutput

SpecPdf == InitPdf /\ [][NextPdf]_vars

-----------------------------------------------------------------------------
(* processSyllabus, the caller of pdfToText, and the two scripts together *)

\* the promise of getDocument(data) is rejected: pdfToText has no try, so the await
\* in processSyllabus throws
RejectGetDocument ==
    /\ pc = "start"
    /\ thrown' = "getDocument"
    /\ pc' = "thrown"
    /\ UNCHANGED <<layoutVars, text, result, sectionVars, inflight, started, written,
                   ocrVars, callVars>>

\* the awaited pdf.getPage(i) or page.getTextContent() is rejected
RejectPageOp ==
    /\ pc \in {"getPage", "getTextContent"}
    /\ thrown' = pc
    /\ inflight' = {}
    /\ pc' = "thrown"
    /\ UNCHANGED <<layoutVars, text, result, sectionVars, started, written, ocrVars,
                   callVars>>

NextSyllabus ==
    \/ NextLayout
    \/ RejectGetDocument
    \/ RejectPageOp
    \/ CatchError
    \/ WriteOutput

\* either script is run: processSyllabus on a document, or main
InitScripts == InitLayout \/ InitPdf

NextScripts == NextSyllabus \/ NextPdf

SpecScripts == InitScripts /\ [][NextScripts]_vars

-----------------------------------------------------------------------------
(* Claims about pdfToText, checked under SpecLayout *)

\* the run the loop over blocks is about to process
AtRun == pc = "runs" /\ k < Len(blocks)

\* AtRun, with a previous run on the page whose text does not end with a space
AtRunAfter == AtRun /\ lastBlock # None /\ NotEndsWithSpace(lastBlock.str)

\* C1: when the previous run of the page does not end with a space and the
\* current run's x is smaller than the previous run's x, the step appends
\* exactly CR LF and then the current run's text (no space), whatever the y
\* values are and whether or not the previous run is a single letter.
C1_NewLineOnSmallerX ==
    [][(AtRunAfter /\ blocks[k + 1].x < lastBlock.x)
        => pageText' = pageText \o <<"\r", "\n">> \o blocks[k + 1].str]_vars

\* C1 witness: a bare letter at (2,1) followed by a run at (1,2) gave letter, CR LF, run
C1_Witness ==
    /\ pc = "runs" /\ k = 2
    /\ blocks[1].str = <<"A">> /\ blocks[1].x = 2 /\ blocks[1].y = 1
    /\ blocks[2].str = <<"H", "i">> /\ blocks[2].x = 1 /\ blocks[2].y = 2
    /\ pageText = <<"A", "\r", "\n", "H", "i">>

\* C2: when the previous run does not end with a space, the current x is not
\* smaller, the y values differ and the previous run is not a bare letter
\* (optionally preceded by one whitespace character), the step appends exactly
\* one space and then the current run's text.
C2_SpaceOnOtherBaseline ==
    [][(/\ AtRunAfter
        /\ blocks[k + 1].x >= lastBlock.x
        /\ blocks[k + 1].y # lastBlock.y
        /\ ~IsBareLetter(lastBlock.str))
        => pageText' = pageText \o <<" ">> \o blocks[k + 1].str]_vars

\* C2 witness: "Hi" at (1,2) followed by "Hi" at (2,1) gave "Hi Hi"
C2_Witness ==
    /\ pc = "runs" /\ k = 2
    /\ blocks[1].str = <<"H", "i">> /\ blocks[1].x = 1 /\ blocks[1].y = 2
    /\ blocks[2].str = <<"H", "i">> /\ blocks[2].x = 2 /\ blocks[2].y = 1
    /\ pageText = <<"H", "i", " ", "H", "i">>

\* C3: the current run's text is appended with no separator when it is the
\* first run of its page, when the previous run ends with a space, or when the
\* current x is not smaller and either the y values are equal or the previous
\* run is a bare letter (optionally preceded by one whitespace character).
C3_NoSeparator ==
    [][(/\ AtRun
        /\ \/ lastBlock = None
           \/ ~NotEndsWithSpace(lastBlock.str)
           \/ /\ blocks[k + 1].x >= lastBlock.x
              /\ \/ blocks[k + 1].y = lastBlock.y
                 \/ IsBareLetter(lastBlock.str))
        => pageText' = pageText \o blocks[k + 1].str]_vars

\* C3 witness: "A" at (1,2) followed by "Hi" at (2,1) gave "AHi"
C3_Witness ==
    /\ pc = "runs" /\ k = 2
    /\ blocks[1].str = <<"A">> /\ blocks[1].x = 1 /\ blocks[1].y = 2
    /\ blocks[2].str = <<"H", "i">> /\ blocks[2].x = 2 /\ blocks[2].y = 1
    /\ pageText = <<"A", "H", "i">>

\* the texts of pages 1..n of the document, each followed by two newlines
PagesUpTo(n) == Flatten([j \in 1..n |-> PageTextOf(doc[j]) \o <<"\n", "\n">>])

\* C4: the output is the page texts in ascending page order, every page
\* (also a page without runs, also the last one) contributing its text
\* followed by exactly two newline characters; while the loop runs, fullText
\* holds exactly the pages before page i.
C4_PagesInOrder ==
    /\ pc \in {"loop", "getPage", "page", "getTextContent", "runs"}
           => fullText = PagesUpTo(i - 1)
    /\ pc = "done" => result = PagesUpTo(Len(doc))

\* C4 witness: a finished document whose first page has no runs and whose second has
C4_Witness ==
    /\ pc = "done"
    /\ Len(doc) = 2 /\ doc[1] = <<>> /\ doc[2] # <<>>
    /\ result = <<"\n", "\n">> \o PageTextOf(doc[2]) \o <<"\n", "\n">>

-----------------------------------------------------------------------------
(* Claims about extractTAOfficeHours, checked under SpecOffice *)

\* m occurs somewhere in t
Contains(t, m) == \E p \in 0..Len(t) : OccursAt(t, m, p)

\* r is s without its leading and trailing whitespace
IsTrimOf(r, s) ==
    /\ r = <<>> \/ (r[1] \notin WhiteSpace /\ r[Len(r)] \notin WhiteSpace)
    /\ \E a \in 0..Len(s) :
          /\ a + Len(r) <= Len(s)
          /\ \A j \in 1..Len(s) :
                IF j > a /\ j <= a + Len(r) THEN s[j] = r[j - a] ELSE s[j] \in WhiteSpace

\* r is the trimmed text from just after the first occurrence of m in t to the
\* end of that line (the first line feed, or the end of t)
IsLineAfterFirst(r, t, m) ==
    \E p \in 0..Len(t) :
        /\ OccursAt(t, m, p)
        /\ \A q \in 0..(p - 1) : ~OccursAt(t, m, q)
        /\ \E e \in (p + Len(m))..Len(t) :
              /\ e = Len(t) \/ t[e + 1] = "\n"
              /\ \A j \in (p + Len(m) + 1)..e : t[j] # "\n"
              /\ IsTrimOf(r, SubSeq(t, p + Len(m) + 1, e))

\* C5: the result is the rest of the line after the first "Office Hours:";
\* "TA Info:" is used only when "Office Hours:" occurs nowhere in the text;
\* when neither occurs the result is "TA office hours not found.".
C5_OfficeHoursFallback ==
    pc = "done" =>
        IF Contains(text, OfficeMarker) THEN IsLineAfterFirst(result, text, OfficeMarker)
        ELSE IF Contains(text, AltMarker) THEN IsLineAfterFirst(result, text, AltMarker)
        ELSE result = OfficeNotFound

\* C5 witness: "TA Info: Tue 2-4pm" without "Office Hours:" gave "Tue 2-4pm"
C5_Witness ==
    /\ pc = "done"
    /\ text = AltMarker \o <<" ","T","u","e"," ","2","-","4","p","m">>
    /\ result = <<"T","u","e"," ","2","-","4","p","m">>

-----------------------------------------------------------------------------
(* Claims about extractGradingPolicy, checked under SpecGrading *)

\* t contains one of the grading markers
HasGradingMarker(t) ==
    \/ Contains(t, GradeWeighting)
    \/ Contains(t, <<"G","r","a","d","e","d"," ","W","o","r","k">>)
    \/ Contains(t, <<"G","r","a","d","i","n","g"," ","P","o","l","i","c","i","e","s",":">>)
    \/ Contains(t, <<"G","r","a","d","i","n","g"," ","P","o","l","i","c","y",":">>)
    \/ Contains(t, <<"G","r","a","d","i","n","g",":">>)

\* C6: both variants of extractGradingPolicy return a string for every text,
\* and for a text that contains none of the grading markers the result is
\* exactly "Grading policy not found.".
C6_SentinelOnAbsence ==
    pc \in {"doneFirst", "doneSecond"} =>
        /\ result \in Seq(Chars)
        /\ ~HasGradingMarker(text) =>
              result = <<"G","r","a","d","i","n","g"," ","p","o","l","i","c","y"," ",
                         "n","o","t"," ","f","o","u","n","d",".">>

\* C6 witness: a text with "Grade Letter" and a scale line but no grading marker
\* gave the sentinel in the second variant
C6_Witness ==
    /\ pc = "doneSecond"
    /\ text = <<"G","r","a","d","e"," ","L","e","t","t","e","r","\n","A"," ","9","4">>
    /\ result = GradingNotFound

\* the line begins with a capital letter A-F, an optional + or -, whitespace and a number
HasScaleShape(line) ==
    /\ Len(line) >= 3
    /\ line[1] \in {"A", "B", "C", "D", "E", "F"}
    /\ LET rest == IF line[2] \in {"+", "-"} THEN SubSeq(line, 3, Len(line))
                   ELSE SubSeq(line, 2, Len(line))
           ws == RunLength(rest, WhiteSpace)
       IN  /\ ws >= 1
           /\ ws < Len(rest)
           /\ rest[ws + 1] \in Digits

\* what the function returns for weighting lines ws and scale lines ls
Rendered(ws, ls) ==
    IF ws = <<>> /\ ls = <<>> THEN GradingNotFound
    ELSE (IF ws # <<>> THEN Join(ws, LF) ELSE <<>>)
         \o (IF ls # <<>> THEN ScaleHeader \o Join(ls, LF) ELSE <<>>)

\* the lines of the span scanned at the "grade letter" marker that have the scale shape
MatchingSpanLines(t) ==
    LET letterIdx == SearchNoCase(t, GradeLetter)
    IN  SelectSeq(Split(Substring(t, letterIdx, letterIdx + ScaleChunkLen), "\n"),
                  HasScaleShape)

\* C7 (the claim as stated): on the "Grade Weighting" path the grading-scale
\* output is exactly the lines of the captured span that have the shape
\* "A-F, optional + or -, whitespace, number", in order, every other line
\* being discarded.  Stated for the texts whose only span is the one at the
\* "grade letter" marker.
C7_ScaleOutputIsMatchingLines ==
    (/\ pc = "doneSecond"
     /\ Contains(text, GradeWeighting)
     /\ SearchNoCase(text, GradeLetter) # -1
     /\ ~Contains(text, GradingScale))
    => result = Rendered(WeightingLines(text, IndexOf(text, GradeWeighting)),
                         MatchingSpanLines(text))

\* C8: in the second variant, with "Grade Weighting" present, the scale lines
\* are those of the "grade letter" scan whenever it yields at least one line;
\* the "Grading Scale" scan supplies them only when the marker scan yields
\* none, and the two are never mixed.
C8_MarkerScanFirst ==
    (pc = "doneSecond" /\ Contains(text, GradeWeighting)) =>
        LET idx == IndexOf(text, GradeWeighting)
            marker == MarkerScanLines(text)
            generic == GenericScanLines(text, idx)
        IN  result = Rendered(WeightingLines(text, idx),
                              IF marker # <<>> THEN marker ELSE generic)

\* C8 witness: both scans find lines ("A 94" and "B+ 87" under "Grading Scale",
\* "B+ 87" under "Grade Letter") and the output holds the marker scan's line only
C8_Witness ==
    /\ pc = "doneSecond"
    /\ text = Join(<<GradeWeighting, GradingScale, <<"A"," ","9","4">>,
                     <<"G","r","a","d","e"," ","L","e","t","t","e","r">>,
                     <<"B","+"," ","8","7">> >>, LF)
    /\ GenericScanLines(text, 0) = << <<"A"," ","9","4">>, <<"B","+"," ","8","7">> >>
    /\ result = ScaleHeader \o <<"B","+"," ","8","7">>

-----------------------------------------------------------------------------
(* Claims about extractSectionWithBoundaries and processPdf, checked under
   SpecSection *)

\* the 0-based index of the first occurrence of heading in t, ignoring case
FirstHeading(t, heading) == SearchNoCase(t, heading)

\* the heading at its first occurrence is followed by a colon or a line feed,
\* possibly after whitespace
HeadingDelimited(t, heading) ==
    LET q == FirstHeading(t, heading) + Len(heading)
        a == RunLength(SubstringFrom(t, q), WhiteSpace \ {"\n"})
    IN  /\ FirstHeading(t, heading) # -1
        /\ q + a + 1 <= Len(t)
        /\ t[q + a + 1] \in {":", "\n"}

\* the span the claim describes: from just after the heading (and the colons
\* and whitespace that follow it) to the first boundary string after it, or,
\* without one, to the next blank line or the end
ClaimedSpan(t, heading, endBoundaries) ==
    LET h == FirstHeading(t, heading) + Len(heading)
        q == h + RunLength(SubstringFrom(t, h), WhiteSpace \cup {":"})
        ends == {e \in q..Len(t) :
                    \E b \in 1..Len(endBoundaries) : OccursAtNoCase(t, endBoundaries[b], e)}
        blank == SearchBlankLine(SubstringFrom(t, q))
        e == IF ends # {} THEN CHOOSE x \in ends : \A y \in ends : x <= y
             ELSE IF blank # -1 THEN q + blank
             ELSE Len(t)
    IN  Trim(Substring(t, q, e))

\* C9 (the claim as stated): extractSectionWithBoundaries captures the span
\* from just after the heading up to the first boundary string after it, also
\* when the span holds several lines; without a boundary string after the
\* heading the span runs to the next blank line or the end of the text.
C9_SpanUpToFirstBoundary ==
    (pc = "called" /\ HeadingDelimited(text, result.heading)) =>
        /\ ~result.value.isNull
        /\ result.value.str = ClaimedSpan(text, result.heading, result.boundaries)

RECURSIVE FirstNonEmpty(_)
\* the first non-empty string of a sequence of captures, or null
FirstNonEmpty(cs) ==
    IF cs = <<>> THEN Null
    ELSE IF Truthy(Head(cs)) THEN Head(cs)
    ELSE FirstNonEmpty(Tail(cs))

\* the captures of the candidates of an entry of sections, in the order they
\* are tried, each after the entry's post-filter
FilteredCaptures(t, params) ==
    LET Filtered(v) ==
            IF params.name = "Late Policy" /\ ~v.isNull THEN Str(filterLatePolicy(v.str))
            ELSE v
        n == Len(params.headings)
        generic == [j \in 1..n |-> Filtered(extractSection(t, params.headings[j]))]
        bounded == [j \in 1..n |->
                       Filtered(extractSectionWithBoundaries(
                                    t, params.headings[j], params.boundaries))]
    IN  IF params.hasBoundaries THEN bounded \o generic ELSE generic

\* C10 (the claim as stated): every field's value is the capture of the first
\* candidate whose capture is non-empty after the field's post-filter, and
\* null, never an empty string, when no candidate has one.
C10_AcceptedAfterPostFilter ==
    pc = "done" =>
        \A n \in 1..Len(Sections) :
            /\ result[n].value = FirstNonEmpty(FilteredCaptures(text, Sections[n]))
            /\ result[n].value.isNull \/ result[n].value.str # <<>>

-----------------------------------------------------------------------------
(* Claims about processPdf and extractTextWithOCR, checked under SpecPdf *)

\* C11 (as stated): processPdf takes the OCR path if and only if the directly
\* extracted text equals "" or starts with the signature "%PDF"; for any other
\* text the OCR path is not entered and the section extractor receives the
\* directly extracted text.
C11_OcrIffEmptyOrSignature ==
    [][(pc = "decide")
        => (IF text = <<>> \/ StartsWith(text, PdfSignature)
            THEN pc' = "ocrParse"
            ELSE pc' = "sections" /\ text' = text)]_vars

\* C11 (amended): processPdf takes the OCR path if and only if the directly
\* extracted text with leading and trailing whitespace removed is empty or
\* starts with "%PDF"; otherwise the OCR path is not entered and the section
\* extractor receives the directly extracted text, untrimmed. The text that
\* extractTextWithOCR returns replaces the directly extracted one.
C11_OcrIffTrimmedEmptyOrSignature ==
    [][ /\ (pc = "decide")
           => (IF Trim(text) = <<>> \/ StartsWith(Trim(text), PdfSignature)
               THEN pc' = "ocrParse" /\ text' = text
               ELSE pc' = "sections" /\ text' = text)
        /\ (pc = "ocrLoop" /\ pc' = "sections") => (text' = ocrText)
        /\ (pc' = "ocrParse") => (pc = "decide") ]_vars

\* C11 witness: a text of white space only, and a text with a line break before
\* the signature, took the OCR path
C11_Witness ==
    /\ pc = "ocrParse"
    /\ text = <<"\n">> \o PdfSignature \o <<"-","1">>

\* extractTextWithOCR has returned or thrown (or was never called)
OcrNotRunning == pc \in {"main", "decide", "thrown", "caught", "sections", "done", "exit"}

\* C12: every page image that extractTextWithOCR created is deleted before the
\* function returns or throws, also when Tesseract.recognize fails on a page:
\* after the call no page image exists, and at no time does more than one exist.
C12_ImagesDeletedOnEveryExit ==
    /\ OcrNotRunning => images = {}
    /\ Cardinality(images) <= 1

-----------------------------------------------------------------------------
(* Claims about both scripts, checked under SpecScripts *)

\* a step of the text extraction has failed
Failed == thrown # "none"

\* the names of the entries of sections
DeclaredFields == {Sections[n].name : n \in 1..Len(Sections)}

\* no page operation was started twice
NoRetry == \A a, b \in 1..Len(started) : started[a] = started[b] => a = b

\* C13: a document either fully succeeds or fully fails. Once decoding,
\* rasterization or recognition has failed, no further page operation is
\* started and none is started twice, the error stays the one that was thrown
\* and travels from the catch of extractTextWithOCR to the caller's catch, no
\* text and no result map is returned and no output file is written; when
\* processPdf returns, its result map has every declared field.
C13_AllOrNothing ==
    /\ [](Failed => /\ pc \in {"ocrCatch", "thrown", "caught"}
                    /\ inflight = {}
                    /\ result = None
                    /\ extractedData = <<>>
                    /\ ~written)
    /\ [](NoRetry)
    /\ []((pc \in {"done", "exit"} /\ section = Len(Sections))
            => {result[n].name : n \in 1..Len(result)} = DeclaredFields)
    /\ [][ /\ Failed => (started' = started /\ thrown' = thrown)
           /\ (pc = "ocrCatch") => (pc' = "thrown")
           /\ (pc = "thrown") => (pc' = "caught")
           /\ (~Failed /\ Failed') => (/\ \A o \in inflight : thrown' = o.op
                                    /\ pc' \in {"ocrCatch", "thrown"}) ]_vars

\* C13 witness: recognition failed on page 1 of a document of two pages; page 2
\* was never rasterized and main caught the error
C13_Witness ==
    /\ pc = "caught"
    /\ thrown = "recognize"
    /\ numPages = 2
    /\ started = <<PageOp("convert", 1), PageOp("recognize", 1)>>
    /\ ~written

\* the page operations of pdfToText and of extractTextWithOCR, in program order
LayoutOps == <<"getPage", "getTextContent">>

OcrOps == <<"convert", "recognize", "unlink">>

RECURSIVE PageOpsUpTo(_, _)
\* the operations ops of pages 1..n, page by page
PageOpsUpTo(ops, n) ==
    IF n = 0 THEN <<>>
    ELSE PageOpsUpTo(ops, n - 1) \o [j \in 1..Len(ops) |-> PageOp(ops[j], n)]

IsPrefix(s, t) == Len(s) <= Len(t) /\ SubSeq(t, 1, Len(s)) = s

\* C15: the awaited page operations are started strictly one after the other
\* in ascending page order: at most one is in flight at any time; in pdfToText
\* getPage of a page starts only when the text of every earlier page has been
\* retrieved and folded into fullText; in extractTextWithOCR the rasterization of
\* a page starts only when the rasterize, recognize and delete steps of every
\* earlier page have completed.
C15_PageOpsSequential ==
    /\ [](Cardinality(inflight) <= 1)
    /\ [](IsPrefix(started, PageOpsUpTo(LayoutOps, Len(doc))
                            \o PageOpsUpTo(OcrOps, numPages)))
    /\ [][ (started' # started)
             => /\ inflight = {}
                /\ Len(started') = Len(started) + 1
                /\ inflight' = {started'[Len(started')]}
                /\ LET op == started'[Len(started')]
                   IN  /\ (op.op = "getPage")
                          => (fullText = PagesUpTo(op.page - 1) /\ i = op.page)
                       /\ (op.op = "convert")
                          => (/\ images = {}
                              /\ started = PageOpsUpTo(OcrOps, op.page - 1)) ]_vars

\* C15 witness: the rasterization of page 2 is in flight after the three steps
\* of page 1 have completed
C15_Witness ==
    /\ pc = "convert"
    /\ inflight = {PageOp("convert", 2)}
    /\ started = PageOpsUpTo(OcrOps, 1) \o <<PageOp("convert", 2)>>
    /\ images = {}

-----------------------------------------------------------------------------
(* Claim about pdfToText called twice, checked under SpecRerun *)

\* C14: pdfToText keeps no state across pages or calls. At the start of every
\* page lastBlock is none and pageText is empty, so the first run of a page is
\* appended without separator whatever the last run of the page before was;
\* the text a page contributes is the fold of that page's own run list; and a
\* second call on the same page-run lists returns the same text as the first.
C14_NoStateAcrossPages ==
    /\ []((pc = "runs" /\ k = 0) => (lastBlock = None /\ pageText = <<>>))
    /\ []((pc = "runs")
            => (blocks = doc[i] /\ pageText = PageTextOf(SubSeq(blocks, 1, k))))
    /\ []((pc = "done" /\ again) => (result = previous))
    /\ [][ /\ (AtRun /\ k = 0) => (pageText' = blocks[1].str)
           /\ (pc = "runs" /\ pc' = "loop")
              => (fullText' = fullText \o PageTextOf(doc[i]) \o <<"\n", "\n">>) ]_vars

\* C14 witness: page 1 ends with "Hi" at x = 2, page 2 starts with "A" at x = 1 on
\* another baseline; "A" got no separator, in the first call and in the second
C14_Witness ==
    /\ pc = "done"
    /\ again
    /\ Len(doc) = 2
    /\ doc[1] = <<[str |-> <<"H", "i">>, x |-> 2, y |-> 1]>>
    /\ doc[2] = <<[str |-> <<"A">>, x |-> 1, y |-> 2]>>
    /\ result = <<"H", "i", "\n", "\n", "A", "\n", "\n">>
    /\ previous = result

====
